---- MODULE Spec2Model ----
(***************************************************************************)
(* Model of stock_app.py: a top-to-bottom Streamlit script that fetches a  *)
(* daily OHLCV history, computes technical indicators, classifies every    *)
(* row as Buy (1) / Sell (-1) / none (0), slices the last 240 calendar     *)
(* days and builds the table of signals shown to the user.                 *)
(*                                                                         *)
(* Numbers.  Prices are integers (ticks).  The exponentially weighted      *)
(* columns are kept in ticks, the rounding of the float recurrence being   *)
(* modelled by flooring.  Every column that pandas can leave NaN or that   *)
(* goes through a division (RSI, HighLevel, LowLevel, EMA233_Slope, the    *)
(* diffs) is a "float" record: NaN, +/-inf, or an exact fraction n/d.      *)
(***************************************************************************)
EXTENDS Integers, Sequences, FiniteSets, TLC

VARIABLES pc, stock_code, data, data_display, signals_df, shown

vars == <<pc, stock_code, data, data_display, signals_df, shown>>

(***************************************************************************)
(* Bounds of the model and the inputs the feed is allowed to return.       *)
(***************************************************************************)
MaxRows == 16

StockCodes == {"TSLA", "2330.tw"}
Bases == {10000}
Slopes == {-400, 0, 400}
Spreads == {5}
HaltDays == {300}
BarKinds == {"ok", "inverted", "negvol"}

(***************************************************************************)
(* Program constants.                                                      *)
(***************************************************************************)
RsiWindow == 14
LevelWindow == 15
DisplayDays == 8 * 30
ColorUp == "#00ff00"
ColorDown == "#ff0000"

(***************************************************************************)
(* Float arithmetic with NaN and infinities (IEEE semantics, exact on      *)
(* finite values).                                                         *)
(***************************************************************************)
Abs(x) == IF x < 0 THEN -x ELSE x

Sgn(x) == IF x < 0 THEN -1 ELSE IF x > 0 THEN 1 ELSE 0

RECURSIVE Gcd(_, _)
Gcd(a, b) == IF b = 0 THEN a ELSE Gcd(b, a % b)

NaN == [k |-> "nan", n |-> 0, d |-> 1]

Inf(s) == [k |-> "inf", n |-> s, d |-> 1]

\* the fraction n/d (d # 0) in lowest terms with a positive denominator
Frac(n, d) ==
    LET g == Gcd(Abs(n), Abs(d))
    IN  [k |-> "num", n |-> Sgn(d) * (n \div g), d |-> Abs(d) \div g]

F(x) == [k |-> "num", n |-> x, d |-> 1]

IsNaN(a) == a.k = "nan"

FNeg(a) ==
    CASE a.k = "nan" -> NaN
      [] a.k = "inf" -> Inf(-a.n)
      [] OTHER -> Frac(-a.n, a.d)

FAdd(a, b) ==
    CASE a.k = "nan" \/ b.k = "nan" -> NaN
      [] a.k = "inf" /\ b.k = "inf" -> IF a.n = b.n THEN a ELSE NaN
      [] a.k = "inf" -> a
      [] b.k = "inf" -> b
      [] OTHER -> Frac(a.n * b.d + b.n * a.d, a.d * b.d)

FSub(a, b) == FAdd(a, FNeg(b))

\* FDiv with a zero guard that gives NaN for every division by zero
FDiv_zero_guard(a, b) ==
    CASE a.k = "nan" \/ b.k = "nan" -> NaN
      [] a.k = "inf" /\ b.k = "inf" -> NaN
      [] a.k = "inf" -> Inf(IF b.n < 0 THEN -a.n ELSE a.n)
      [] b.k = "inf" -> F(0)
      [] b.n = 0 -> NaN
      [] OTHER -> Frac(a.n * b.d, a.d * b.n)

FDiv(a, b) ==
    CASE a.k = "nan" \/ b.k = "nan" -> NaN
      [] a.k = "inf" /\ b.k = "inf" -> NaN
      [] a.k = "inf" -> Inf(IF b.n < 0 THEN -a.n ELSE a.n)
      [] b.k = "inf" -> F(0)
      [] b.n = 0 -> IF a.n = 0 THEN NaN ELSE Inf(Sgn(a.n))
      [] OTHER -> Frac(a.n * b.d, a.d * b.n)

\* FGt with every NaN operand read as 0 (a fillna(0) before comparing)
FGt_nan_as_zero(a, b) ==
    LET x == IF a.k = "nan" THEN F(0) ELSE a
        y == IF b.k = "nan" THEN F(0) ELSE b
    IN  CASE x.k = "inf" /\ y.k = "inf" -> x.n > y.n
          [] x.k = "inf" -> x.n > 0
          [] y.k = "inf" -> y.n < 0
          [] OTHER -> x.n * y.d > y.n * x.d

\* a > b; any comparison with NaN is false
FGt(a, b) ==
    CASE a.k = "nan" \/ b.k = "nan" -> FALSE
      [] a.k = "inf" /\ b.k = "inf" -> a.n > b.n
      [] a.k = "inf" -> a.n > 0
      [] b.k = "inf" -> b.n < 0
      [] OTHER -> a.n * b.d > b.n * a.d

FLt(a, b) == FGt(b, a)

FGe(a, b) ==
    CASE a.k = "nan" \/ b.k = "nan" -> FALSE
      [] OTHER -> ~FGt(b, a)

(***************************************************************************)
(* The history the feed returns (stock.history): n bars, closes following  *)
(* a price path with one turning point, ascending dates with an optional   *)
(* trading halt before the last bars, and optionally a malformed last bar. *)
(***************************************************************************)
Min(a, b) == IF a < b THEN a ELSE b

Max(a, b) == IF a > b THEN a ELSE b

CloseAt(base, turn, s1, s2, i) ==
    base + s1 * Min(i - 1, turn) + s2 * Max(i - 1 - turn, 0)

Bar(base, n, turn, s1, s2, spread, kind, resume, halt, i) ==
    LET c == CloseAt(base, turn, s1, s2, i)
        o == IF i = 1 THEN c ELSE CloseAt(base, turn, s1, s2, i - 1)
        hi == Max(o, c) + spread
        lo == Min(o, c) - spread
        bad == kind # "ok" /\ i = n
    IN  [Date |-> i + (IF resume > 0 /\ i > n - resume THEN halt ELSE 0),
         Open |-> o,
         High |-> IF bad /\ kind = "inverted" THEN lo ELSE hi,
         Low |-> IF bad /\ kind = "inverted" THEN hi ELSE lo,
         Close |-> c,
         Volume |-> IF bad /\ kind = "negvol" THEN -1000 ELSE 1000]

History(base, n, turn, s1, s2, spread, kind, resume, halt) ==
    [i \in 1..n |-> Bar(base, n, turn, s1, s2, spread, kind, resume, halt, i)]

(***************************************************************************)
(* pandas primitives                                                       *)
(***************************************************************************)
Column(df, name) == [i \in 1..Len(df) |-> df[i][name]]

\* Series.ewm(span, adjust=False).mean() on a column without NaN
RECURSIVE Ewm(_, _)
Ewm(xs, span) ==
    IF Len(xs) = 0 THEN <<>>
    ELSE IF Len(xs) = 1 THEN <<xs[1]>>
    ELSE LET prev == Ewm(SubSeq(xs, 1, Len(xs) - 1), span)
         IN  Append(prev, (2 * xs[Len(xs)] + (span - 1) * prev[Len(prev)]) \div (span + 1))

\* Series.diff(): NaN on the first row
Diff(xs) == [i \in 1..Len(xs) |-> IF i = 1 THEN NaN ELSE F(xs[i] - xs[i - 1])]

\* Series.shift(1): NaN on the first row
Shift(fs) == [i \in 1..Len(fs) |-> IF i = 1 THEN NaN ELSE fs[i - 1]]

RECURSIVE SumFrom(_, _, _)
SumFrom(fs, lo, hi) == IF lo > hi THEN F(0) ELSE FAdd(fs[lo], SumFrom(fs, lo + 1, hi))

\* Series.rolling(window).mean() on a column without NaN: NaN until the
\* window holds `window` observations
RollingMean(fs, window) ==
    [i \in 1..Len(fs) |->
        IF i < window THEN NaN
        ELSE FDiv(SumFrom(fs, i - window + 1, i), F(window))]

RECURSIVE MaxFrom(_, _, _)
MaxFrom(xs, lo, hi) == IF lo = hi THEN xs[lo] ELSE Max(xs[lo], MaxFrom(xs, lo + 1, hi))

RECURSIVE MinFrom(_, _, _)
MinFrom(xs, lo, hi) == IF lo = hi THEN xs[lo] ELSE Min(xs[lo], MinFrom(xs, lo + 1, hi))

RollingMax(xs, window) ==
    [i \in 1..Len(xs) |-> IF i < window THEN NaN ELSE F(MaxFrom(xs, i - window + 1, i))]

RollingMin(xs, window) ==
    [i \in 1..Len(xs) |-> IF i < window THEN NaN ELSE F(MinFrom(xs, i - window + 1, i))]

(***************************************************************************)
(* calculate_indicators                                                    *)
(***************************************************************************)
\* delta.where(delta > 0, 0): keeps delta where the test is true, 0 elsewhere
\* (a NaN delta fails the test and becomes 0)
GainOf(delta) == [i \in 1..Len(delta) |-> IF FGt(delta[i], F(0)) THEN delta[i] ELSE F(0)]

\* LossOf without the leading minus: delta.where(delta < 0, 0)
LossOf_not_negated(delta) ==
    [i \in 1..Len(delta) |-> IF FLt(delta[i], F(0)) THEN delta[i] ELSE F(0)]

\* -delta.where(delta < 0, 0)
LossOf(delta) == [i \in 1..Len(delta) |-> FNeg(IF FLt(delta[i], F(0)) THEN delta[i] ELSE F(0))]

AvgGain(close) == RollingMean(GainOf(Diff(close)), RsiWindow)

AvgLoss(close) == RollingMean(LossOf(Diff(close)), RsiWindow)

\* 100 - (100 / (1 + rs))
RsiOf(rs) == FSub(F(100), FDiv(F(100), FAdd(F(1), rs)))

Rsi(close) ==
    LET gain == AvgGain(close)
        loss == AvgLoss(close)
    IN  [i \in 1..Len(close) |-> RsiOf(FDiv(gain[i], loss[i]))]

\* lambda x: '#00ff00' if x >= 0 else '#ff0000'
ColorOf(x) == IF FGe(x, F(0)) THEN ColorUp ELSE ColorDown

calculate_indicators(df) ==
    LET close == Column(df, "Close")
        ema5 == Ewm(close, 5)
        ema13 == Ewm(close, 13)
        ema55 == Ewm(close, 55)
        ema233 == Ewm(close, 233)
        ema12 == Ewm(close, 12)
        ema26 == Ewm(close, 26)
        macd == [i \in 1..Len(df) |-> ema12[i] - ema26[i]]
        signal_line == Ewm(macd, 9)
        rsi == Rsi(close)
        highLevel == RollingMax(Column(df, "High"), LevelWindow)
        lowLevel == RollingMin(Column(df, "Low"), LevelWindow)
        slope == Diff(ema233)
        delta == Diff(close)
    IN  [i \in 1..Len(df) |->
            [Date |-> df[i].Date, Open |-> df[i].Open, High |-> df[i].High,
             Low |-> df[i].Low, Close |-> df[i].Close, Volume |-> df[i].Volume,
             EMA5 |-> ema5[i], EMA13 |-> ema13[i], EMA55 |-> ema55[i],
             EMA233 |-> ema233[i], EMA12 |-> ema12[i], EMA26 |-> ema26[i],
             MACD |-> macd[i], Signal_Line |-> signal_line[i],
             MACD_Hist |-> macd[i] - signal_line[i],
             RSI |-> rsi[i], HighLevel |-> highLevel[i], LowLevel |-> lowLevel[i],
             EMA233_Slope |-> slope[i], Color |-> ColorOf(delta[i])]]

(***************************************************************************)
(* apply_strategy                                                          *)
(***************************************************************************)
\* bullish_conditions with MACD <= 0 instead of MACD < 0
bullish_conditions_macd_le(df, i) ==
    /\ df[i].EMA5 > df[i].EMA13
    /\ df[i].MACD <= 0
    /\ df[i].Signal_Line < 0
    /\ df[i].MACD > df[i].Signal_Line
    /\ FGt(df[i].EMA233_Slope, F(0))
    /\ FGt(F(df[i].Close), df[i].LowLevel)
    /\ FGt(df[i].RSI, Shift(Column(df, "RSI"))[i])

bullish_conditions(df, i) ==
    /\ df[i].EMA5 > df[i].EMA13
    /\ df[i].MACD < 0
    /\ df[i].Signal_Line < 0
    /\ df[i].MACD > df[i].Signal_Line
    /\ FGt(df[i].EMA233_Slope, F(0))
    /\ FGt(F(df[i].Close), df[i].LowLevel)
    /\ FGt(df[i].RSI, Shift(Column(df, "RSI"))[i])

bearish_conditions(df, i) ==
    /\ df[i].EMA5 < df[i].EMA13
    /\ df[i].MACD > 0
    /\ df[i].Signal_Line > 0
    /\ df[i].MACD < df[i].Signal_Line
    /\ FLt(df[i].EMA233_Slope, F(0))
    /\ FLt(F(df[i].Close), df[i].HighLevel)
    /\ FLt(df[i].RSI, Shift(Column(df, "RSI"))[i])

\* data["Signal"] = 0, then the bullish rows are set to 1, then the bearish
\* rows are set to -1 (the later assignment overwrites the earlier one)
SignalOf(bullish, bearish) == IF bearish THEN -1 ELSE IF bullish THEN 1 ELSE 0

WithSignal(row, s) ==
    [Date |-> row.Date, Open |-> row.Open, High |-> row.High,
     Low |-> row.Low, Close |-> row.Close, Volume |-> row.Volume,
     EMA5 |-> row.EMA5, EMA13 |-> row.EMA13, EMA55 |-> row.EMA55,
     EMA233 |-> row.EMA233, EMA12 |-> row.EMA12, EMA26 |-> row.EMA26,
     MACD |-> row.MACD, Signal_Line |-> row.Signal_Line,
     MACD_Hist |-> row.MACD_Hist,
     RSI |-> row.RSI, HighLevel |-> row.HighLevel, LowLevel |-> row.LowLevel,
     EMA233_Slope |-> row.EMA233_Slope, Color |-> row.Color, Signal |-> s]

apply_strategy(df) ==
    [i \in 1..Len(df) |->
        WithSignal(df[i], SignalOf(bullish_conditions(df, i), bearish_conditions(df, i)))]

(***************************************************************************)
(* presentation: display window and signal table                           *)
(***************************************************************************)
RECURSIVE SelectRows(_, _, _)
\* the rows of df whose index is in keep, in the order of df
SelectRows(df, keep, i) ==
    IF i > Len(df) THEN <<>>
    ELSE IF i \in keep THEN <<df[i]>> \o SelectRows(df, keep, i + 1)
    ELSE SelectRows(df, keep, i + 1)

\* data.index.max()
MaxDate(df) == CHOOSE d \in {df[i].Date : i \in 1..Len(df)} :
                  \A j \in 1..Len(df) : df[j].Date <= d

\* DisplaySlice taken first, the indicators and signals computed on the slice
DisplaySlice_then_compute(df) ==
    LET end_date == MaxDate(df)
        display_start == end_date - DisplayDays
    IN  apply_strategy(calculate_indicators(
            SelectRows(df, {i \in 1..Len(df) : df[i].Date >= display_start
                                                /\ df[i].Date <= end_date}, 1)))

\* data.loc[display_start:end_date].copy(): label slice, both ends included
DisplaySlice(df) ==
    LET end_date == MaxDate(df)
        display_start == end_date - DisplayDays
    IN  SelectRows(df, {i \in 1..Len(df) : df[i].Date >= display_start
                                            /\ df[i].Date <= end_date}, 1)

\* str.upper() on the codes the input box is given
Upper(s) ==
    CASE s = "TSLA" -> "TSLA"
      [] s = "2330.tw" -> "2330.TW"

\* Series.map({1: 'Buy', -1: 'Sell'})
SignalType(s) ==
    CASE s = 1 -> "Buy"
      [] s = -1 -> "Sell"
      [] OTHER -> "NaN"

\* SignalsTable keeping the Buy rows only (Signal > 0 instead of Signal != 0)
SignalsTable_buy_only(display, code) ==
    LET hit == SelectRows(display, {i \in 1..Len(display) : display[i].Signal > 0}, 1)
    IN  [k \in 1..Len(hit) |->
            [Date |-> hit[k].Date, Stock |-> Upper(code),
             SignalType |-> SignalType(hit[k].Signal)]]

SignalsTable(display, code) ==
    LET hit == SelectRows(display, {i \in 1..Len(display) : display[i].Signal # 0}, 1)
    IN  [k \in 1..Len(hit) |->
            [Date |-> hit[k].Date, Stock |-> Upper(code),
             SignalType |-> SignalType(hit[k].Signal)]]

(***************************************************************************)
(* The script, statement group by statement group.                         *)
(***************************************************************************)
Init ==
    /\ pc = "fetch"
    /\ stock_code = ""
    /\ data = <<>>
    /\ data_display = <<>>
    /\ signals_df = <<>>
    /\ shown = "nothing"

\* lines 14-22: read the code, fetch three years of history
Fetch ==
    /\ pc = "fetch"
    /\ \E code \in StockCodes, base \in Bases, n \in 1..MaxRows,
          s1 \in Slopes, s2 \in Slopes, spread \in Spreads,
          kind \in BarKinds, resume \in 0..2, halt \in HaltDays :
         \E turn \in 0..(n - 1) :
            /\ resume < n
            /\ stock_code' = code
            /\ data' = History(base, n, turn, s1, s2, spread, kind, resume, halt)
    /\ pc' = "calc"
    /\ UNCHANGED <<data_display, signals_df, shown>>

\* line 72
CalculateIndicators ==
    /\ pc = "calc"
    /\ data' = calculate_indicators(data)
    /\ pc' = "strategy"
    /\ UNCHANGED <<stock_code, data_display, signals_df, shown>>

\* line 73
ApplyStrategy ==
    /\ pc = "strategy"
    /\ data' = apply_strategy(data)
    /\ pc' = "slice"
    /\ UNCHANGED <<stock_code, data_display, signals_df, shown>>

\* lines 76-79 (the history is never empty here, so no exception is raised)
SliceDisplay ==
    /\ pc = "slice"
    /\ data_display' = DisplaySlice(data)
    /\ pc' = "table"
    /\ UNCHANGED <<stock_code, data, signals_df, shown>>

\* lines 91-95
BuildSignalsTable ==
    /\ pc = "table"
    /\ signals_df' = SignalsTable(data_display, stock_code)
    /\ pc' = "render"
    /\ UNCHANGED <<stock_code, data, data_display, shown>>

\* lines 98-182: the table or the "no signals" message, then the chart
Render ==
    /\ pc = "render"
    /\ shown' = IF signals_df # <<>> THEN "dataframe" ELSE "no-signals"
    /\ pc' = "done"
    /\ UNCHANGED <<stock_code, data, data_display, signals_df>>

Next ==
    \/ Fetch
    \/ CalculateIndicators
    \/ ApplyStrategy
    \/ SliceDisplay
    \/ BuildSignalsTable
    \/ Render

Spec == Init /\ [][Next]_vars

(***************************************************************************)
(* apply_strategy on its own: a frame of two consecutive indicator rows    *)
(* whose columns read by the strategy range over values on both sides of   *)
(* every comparison, ties and NaN included.                                *)
(***************************************************************************)
EmaValues == {9, 10, 11}
MacdValues == {-1, 0, 1}
SignalLineValues == {-2, -1, 0, 1, 2}
SlopeValues == {NaN, F(-1), F(0), F(1)}
LowLevelValues == {NaN, F(90), F(100)}
HighLevelValues == {NaN, F(100), F(110)}
RsiValues == {NaN, F(40), F(50)}

IndicatorRow(date, ema5, macd, signal_line, slope, lowLevel, highLevel, rsi) ==
    [Date |-> date, Open |-> 100,
     High |-> IF highLevel = F(100) THEN 100 ELSE 110,
     Low |-> IF lowLevel = F(100) THEN 100 ELSE 90,
     Close |-> 100, Volume |-> 1000,
     EMA5 |-> ema5, EMA13 |-> 10, EMA55 |-> 10, EMA233 |-> 10,
     EMA12 |-> 10 + macd, EMA26 |-> 10,
     MACD |-> macd, Signal_Line |-> signal_line,
     MACD_Hist |-> macd - signal_line,
     RSI |-> rsi, HighLevel |-> highLevel, LowLevel |-> lowLevel,
     EMA233_Slope |-> slope, Color |-> ColorUp]

InitRows ==
    /\ pc = "strategy"
    /\ stock_code = "TSLA"
    /\ \E ema5 \in EmaValues, macd \in MacdValues, signal_line \in SignalLineValues,
          slope \in SlopeValues, lowLevel \in LowLevelValues,
          highLevel \in HighLevelValues, rsi \in RsiValues, prev_rsi \in RsiValues :
         data = <<IndicatorRow(1, 10, 0, 0, F(0), lowLevel, highLevel, prev_rsi),
                  IndicatorRow(2, ema5, macd, signal_line, slope, lowLevel, highLevel, rsi)>>
    /\ data_display = <<>>
    /\ signals_df = <<>>
    /\ shown = "nothing"

NextRows == ApplyStrategy

SpecRows == InitRows /\ [][NextRows]_vars

(***************************************************************************)
(* Properties.  Computed: the indicator columns exist.  Classified: the    *)
(* Signal column exists.  Sliced: the display window has been taken.       *)
(***************************************************************************)
Computed == pc \in {"strategy", "slice", "table", "render", "done"}

Classified == pc \in {"slice", "table", "render", "done"}

Sliced == pc \in {"table", "render", "done"}

Tabled == pc \in {"render", "done"}

\* value comparisons on defined finite floats, as the specification reads them
Defined(a) == a.k # "nan"

Above(a, b) == a.k = "num" /\ b.k = "num" /\ a.n * b.d > b.n * a.d

\* the seven bullish conditions of the specification on row t
SpecBullish(t) ==
    /\ data[t].EMA5 > data[t].EMA13
    /\ data[t].MACD < 0
    /\ data[t].Signal_Line < 0
    /\ data[t].MACD > data[t].Signal_Line
    /\ Above(data[t].EMA233_Slope, F(0))
    /\ Above(F(data[t].Close), data[t].LowLevel)
    /\ t > 1
    /\ Above(data[t].RSI, data[t - 1].RSI)

\* the seven bearish conditions of the specification on row t
SpecBearish(t) ==
    /\ data[t].EMA5 < data[t].EMA13
    /\ data[t].MACD > 0
    /\ data[t].Signal_Line > 0
    /\ data[t].MACD < data[t].Signal_Line
    /\ Above(F(0), data[t].EMA233_Slope)
    /\ Above(data[t].HighLevel, F(data[t].Close))
    /\ t > 1
    /\ Above(data[t - 1].RSI, data[t].RSI)

\* C1: on every classified row the signal is Buy (1) exactly when the seven
\* bullish conditions hold, Sell (-1) exactly when the seven bearish
\* conditions hold, and none (0) otherwise; a Buy row never satisfies the
\* bearish set nor a Sell row the bullish set.
C1_SignalDeterminedByPredicates ==
    Classified =>
        \A t \in 1..Len(data) :
            /\ data[t].Signal = 1 <=> SpecBullish(t)
            /\ data[t].Signal = -1 <=> SpecBearish(t)
            /\ data[t].Signal = 0 <=> (~SpecBullish(t) /\ ~SpecBearish(t))
            /\ data[t].Signal = 1 => ~SpecBearish(t)
            /\ data[t].Signal = -1 => ~SpecBullish(t)

C1_Witness ==
    /\ Classified
    /\ \E t \in 1..Len(data) : data[t].Signal = 1 /\ SpecBullish(t)

\* C2: a row that is the first of the series, or whose rsi, previous rsi,
\* lowLevel, highLevel or ema233Slope is undefined, has signal none.
C2_UndefinedOperandGivesNone ==
    Classified =>
        \A t \in 1..Len(data) :
            (\/ t = 1
             \/ ~Defined(data[t].RSI)
             \/ ~Defined(data[t - 1].RSI)
             \/ ~Defined(data[t].LowLevel)
             \/ ~Defined(data[t].HighLevel)
             \/ ~Defined(data[t].EMA233_Slope)) => data[t].Signal = 0

\* a row past the first whose always-defined conditions are all bullish and
\* whose rsi is defined, kept at none only by an undefined operand
C2_Witness ==
    /\ pc = "done"
    /\ \E t \in 2..Len(data) :
          /\ data[t].EMA5 > data[t].EMA13
          /\ data[t].MACD < 0
          /\ data[t].Signal_Line < 0
          /\ data[t].MACD > data[t].Signal_Line
          /\ Above(data[t].EMA233_Slope, F(0))
          /\ Defined(data[t].RSI)
          /\ ~Defined(data[t - 1].RSI) \/ ~Defined(data[t].LowLevel)
          /\ data[t].Signal = 0

\* C3: rsi is undefined on each of the first 14 rows of the series (so on
\* every row of a 14-bar input, and on all but the 15th row of a 15-bar one).
C3_RsiUndefinedOnFirst14Rows ==
    Computed =>
        \A t \in 1..Len(data) : t <= RsiWindow => ~Defined(data[t].RSI)

\* C4 (as claimed): on every row with a full 14-value window and avgLoss = 0,
\* rsi is defined and equals 100.
C4_ZeroLossGives100 ==
    Computed =>
        \A t \in 1..Len(data) :
            (t > RsiWindow /\ AvgLoss(Column(data, "Close"))[t] = F(0))
                => data[t].RSI = F(100)

StrictlyIncreasing(xs) == \A i \in 2..Len(xs) : xs[i] > xs[i - 1]

\* C4 (amended): on every row with a full window, avgLoss = 0 and
\* avgGain > 0, rsi equals 100; a strictly increasing close series has
\* rsi = 100 on every row where rsi is defined.
C4_ZeroLossPositiveGainGives100 ==
    Computed =>
        LET close == Column(data, "Close")
        IN  \A t \in 1..Len(data) :
                /\ (/\ t >= RsiWindow
                    /\ AvgLoss(close)[t] = F(0)
                    /\ Above(AvgGain(close)[t], F(0))) => data[t].RSI = F(100)
                /\ (StrictlyIncreasing(close) /\ Defined(data[t].RSI))
                        => data[t].RSI = F(100)

C4_Witness ==
    /\ pc = "done"
    /\ \E t \in 1..Len(data) :
          /\ AvgLoss(Column(data, "Close"))[t] = F(0)
          /\ Above(AvgGain(Column(data, "Close"))[t], F(0))
          /\ ~StrictlyIncreasing(Column(data, "Close"))
          /\ data[t].RSI = F(100)

\* C5: the colour of a row is "up" exactly when the row is the first of the
\* series or its close is not below the previous close.
C5_ColorUpIffNoFall ==
    Computed =>
        \A t \in 1..Len(data) :
            data[t].Color = ColorUp <=> (t = 1 \/ data[t].Close - data[t - 1].Close >= 0)

\* C6: a row on which both the bullish and the bearish conditions hold is
\* classified Buy.
C6_BullishTakesPrecedence ==
    Classified =>
        \A t \in 1..Len(data) :
            (SpecBullish(t) /\ SpecBearish(t)) => data[t].Signal = 1

InWindow(i) == data[i].Date >= MaxDate(data) - DisplayDays

Label(s) == IF s = 1 THEN "Buy" ELSE "Sell"

\* C7 (as claimed): the signal table has exactly one entry, with the right
\* label, for every row of the classified series whose signal is not none,
\* in ascending date order, and no other entry.
C7_TableHoldsEverySignalRow ==
    Tabled =>
        /\ \A i \in 1..Len(data) :
              data[i].Signal # 0 =>
                 Cardinality({k \in 1..Len(signals_df) :
                                 /\ signals_df[k].Date = data[i].Date
                                 /\ signals_df[k].SignalType = Label(data[i].Signal)}) = 1
        /\ \A k \in 1..Len(signals_df) :
              \E i \in 1..Len(data) :
                 data[i].Signal # 0 /\ signals_df[k].Date = data[i].Date
        /\ \A k \in 2..Len(signals_df) : signals_df[k - 1].Date < signals_df[k].Date

\* C7 (amended): the signal table has exactly one entry (date, upper-cased
\* code, label) for every row of the display window (the rows dated within
\* 240 days of the latest row) whose signal is not none, in ascending date
\* order, and no other entry.
C7_TableHoldsEveryDisplayedSignalRow ==
    Tabled =>
        /\ \A i \in 1..Len(data) :
              (data[i].Signal # 0 /\ InWindow(i)) =>
                 Cardinality({k \in 1..Len(signals_df) :
                                 /\ signals_df[k].Date = data[i].Date
                                 /\ signals_df[k].SignalType = Label(data[i].Signal)}) = 1
        /\ \A k \in 1..Len(signals_df) :
              /\ signals_df[k].Stock \in {"TSLA", "2330.TW"}
              /\ signals_df[k].SignalType \in {"Buy", "Sell"}
              /\ \E i \in 1..Len(data) :
                    /\ data[i].Signal # 0
                    /\ InWindow(i)
                    /\ signals_df[k].Date = data[i].Date
        /\ \A k \in 2..Len(signals_df) : signals_df[k - 1].Date < signals_df[k].Date

C7_Witness ==
    /\ pc = "done"
    /\ Len(signals_df) >= 2
    /\ \E i \in 1..Len(data) : InWindow(i) /\ data[i].Signal = 0
    /\ \E k \in 1..Len(signals_df) : signals_df[k].SignalType = "Sell"

InvalidBar(r) ==
    \/ ~(r.Low <= r.Open /\ r.Open <= r.High)
    \/ ~(r.Low <= r.Close /\ r.Close <= r.High)
    \/ r.Open < 0 \/ r.High < 0 \/ r.Low < 0 \/ r.Close < 0
    \/ r.Volume < 0

\* C8: a series holding a bar that violates low <= open, close <= high or
\* has a negative price or volume never gets indicator or classified rows.
C8_InvalidBarRejected ==
    (\E i \in 1..Len(data) : InvalidBar(data[i])) => ~Computed

\* C9: wherever rsi is defined it lies within [0, 100].
C9_RsiWithinBounds ==
    Computed =>
        \A t \in 1..Len(data) :
            Defined(data[t].RSI) =>
                /\ data[t].RSI.k = "num"
                /\ 0 <= data[t].RSI.n
                /\ data[t].RSI.n <= 100 * data[t].RSI.d

C9_Witness ==
    /\ pc = "done"
    /\ \E t \in 1..Len(data) :
          /\ Above(data[t].RSI, F(0))
          /\ Above(F(100), data[t].RSI)

\* C10: the display window is taken only once the indicators and signals of
\* the full series exist, every row shown carries the fields and signal the
\* full-series computation gives the row of that date, and slicing leaves
\* the series itself unchanged.
C10_SliceAfterFullComputation ==
    /\ ~Sliced => data_display = <<>>
    /\ Sliced =>
          LET full == apply_strategy(calculate_indicators(data))
          IN  /\ data = full
              /\ \A k \in 1..Len(data_display) :
                    \E i \in 1..Len(full) :
                       /\ full[i].Date = data_display[k].Date
                       /\ full[i] = data_display[k]

\* a window that leaves rows out and shows a row with rsi defined
C10_Witness ==
    /\ pc = "done"
    /\ Len(data_display) < Len(data)
    /\ \E k \in 1..Len(data_display) : Defined(data_display[k].RSI)

====
